---- MODULE Spec2Model ----
(***************************************************************************)
(* Model of the revisioned-read core:                                      *)
(*   - RemoteClockRevisions (OptimizedRevision, CheckRevision), the        *)
(*     consistency controller for datastores that provide their own clock; *)
(*   - mysqlReader (ReadNamespaceByName, ListAllNamespaces,                *)
(*     LookupNamespacesWithNames), the namespace read path.                *)
(*                                                                         *)
(* Times are nanosecond counts.  Revisions of the remote-clock encoding    *)
(* are decimals holding an integer count of nanoseconds, so the value and  *)
(* its IntPart() are the same integer.  A returned revision is a record    *)
(* [none, value]: none marks the NoRevision sentinel.                      *)
(***************************************************************************)
EXTENDS Integers, Sequences, FiniteSets, TLC

\* ------------------------------------------------------------------ bounds
\* Largest small backend clock reading, and the largest local time.
MaxClock == 4
MaxLocal == 6
\* Concurrent callers: calls of OptimizedRevision begun by them together,
\* and the largest backend clock reading and local time they see.
MaxCalls == 3
MaxConcClock == 3
MaxConcLocal == 3
\* Transactions that write the namespace table.
MaxTx == 3
\* The largest local time when both clocks advance at the same rate.
MaxSyncLocal == 8

\* Configuration values the controller is constructed with (all >= 0).
QuantizationChoices == {0, 3}
FollowerDelayChoices == {0, 2}
StalenessChoices == {0, 1}
GCWindowChoices == {0, 2}

\* Readings of the backend clock, and revisions handed to CheckRevision.
ClockValues == (0 .. MaxClock) \cup {10000, 10050}
RevisionInputs == (-1 .. (MaxClock + 1)) \cup {4999, 5000, 10000, 10001}

\* ------------------------------------------------------------------ state
VARIABLES
    cfg,                    \* QuantizationNanos, GCWindowNanos, FollowerReadDelayNanos, MaxRevisionStaleness
    lastQuantizedRevision,  \* rcr.lastQuantizedRevision
    revisionValidThrough,   \* rcr.revisionValidThrough
    localClock,             \* what time.Now() reads
    remoteClock,            \* what a successful NowFunc reads
    lastReturned,           \* revision of the latest successful OptimizedRevision
    call,                   \* the call that has just returned: its outcome and the state
                            \* before it ("none" once the clocks have moved on)
    \* concurrent callers of OptimizedRevision on one controller
    pc,                     \* the source line each caller is about to execute
    loc,                    \* each caller's local variables
    obs,                    \* what the latest completed concurrent call saw and returned
    started,                \* calls begun so far; the n-th call is call (and fetch) n
    rvtFrom,                \* the call whose fetch wrote the current revisionValidThrough,
    rvtRevision,            \* and the revision that call quantized from the same fetch
    lqrFrom,                \* the call whose fetch wrote the current lastQuantizedRevision
    \* the namespace read path
    namespaces,             \* the rows the reader's filtered namespace query selects, in row order
    nextTx,                 \* the next transaction id the backend hands out
    rcall                   \* the reader call that has just returned ("none" once its
                            \* result is taken)

seqVars == <<lastReturned, call>>
concVars == <<pc, loc, obs, started, rvtFrom, rvtRevision, lqrFrom>>
readerVars == <<namespaces, nextTx, rcall>>
controllerVars == <<cfg, lastQuantizedRevision, revisionValidThrough, localClock,
                    remoteClock>>

vars == <<cfg, lastQuantizedRevision, revisionValidThrough, localClock,
          remoteClock, lastReturned, call, pc, loc, obs, started, rvtFrom,
          rvtRevision, lqrFrom, namespaces, nextTx, rcall>>

\* ------------------------------------------------------------- revisions
\* datastore.NoRevision: the sentinel for "none computed".
NoRevision == [none |-> TRUE, value |-> 0]

\* decimal.NewFromInt(n) as a datastore.Revision.
Rev(n) == [none |-> FALSE, value |-> n]

ErrNil == "nil"
ErrNowFunc == "NowFunc failed"

\* -------------------------------------------------- RemoteClockRevisions
\* Go's a % b for b > 0: the remainder of the division truncated toward
\* zero, so it takes the sign of a.
GoRem(a, b) == IF a >= 0 THEN a % b ELSE -((-a) % b)

\* A comparison that also takes the deadline itself for "before".
BeforeOrAt(t, u) == t <= u

\* localNow.Before(rcr.revisionValidThrough)
Before(t, u) == t < u

\* crdbNow := nowHLC.IntPart() - rcr.FollowerReadDelayNanos
CrdbNow(nowHLC, c) == nowHLC - c.FollowerReadDelayNanos

\* A quantization that keeps the remainder instead of subtracting it.
QuantizedRemainderOnly(crdbNow, q) == IF q > 0 THEN GoRem(crdbNow, q) ELSE crdbNow

\* quantized := crdbNow; if Q > 0 { quantized -= crdbNow % Q }
Quantized(crdbNow, q) == IF q > 0 THEN crdbNow - GoRem(crdbNow, q) ELSE crdbNow

\* A validity of one whole period, wherever in the period the clock stands.
ValidForWholePeriod(quantized, q, crdbNow) == q

\* A validity that leaves the quantization period out.
ValidForNanosNoPeriod(quantized, q, crdbNow) == quantized - crdbNow

\* validForNanos := (quantized + rcr.QuantizationNanos) - crdbNow
ValidForNanos(quantized, q, crdbNow) == (quantized + q) - crdbNow

\* localNow.Add(validForNanos).Add(rcr.MaxRevisionStaleness)
NewValidThrough(localNow, validForNanos, c) ==
    localNow + validForNanos + c.MaxRevisionStaleness

\* The cache-hit return: return rcr.lastQuantizedRevision, nil
CacheHitReturn(lqr) == [revision |-> Rev(lqr), err |-> ErrNil]

\* A failed clock fetch that falls back to the cached revision.
NowFuncFailedReturnsCached(lqr, e) == [revision |-> Rev(lqr), err |-> ErrNil]

\* A failed clock fetch that hands the cached revision out with the error.
NowFuncFailedKeepsRevision(lqr, e) == [revision |-> Rev(lqr), err |-> e]

\* The failed clock fetch: return datastore.NoRevision, err
NowFuncFailedReturn(lqr, e) == [revision |-> NoRevision, err |-> e]

\* What one call of OptimizedRevision returns and leaves in the two fields,
\* read at local time localNow with the fields lqr and rvt, nowHLC being what
\* NowFunc reads and okNow whether it succeeds, should it be invoked.
OptimizedRevisionOutcome(localNow, lqr, rvt, nowHLC, okNow, c) ==
    IF Before(localNow, rvt)
    THEN [ret |-> CacheHitReturn(lqr), nowFuncCalls |-> 0, fetched |-> FALSE,
          lastQuantizedRevision |-> lqr, revisionValidThrough |-> rvt]
    ELSE IF ~okNow
    THEN [ret |-> NowFuncFailedReturn(lqr, ErrNowFunc), nowFuncCalls |-> 1,
          fetched |-> FALSE,
          lastQuantizedRevision |-> lqr, revisionValidThrough |-> rvt]
    ELSE LET crdbNow == CrdbNow(nowHLC, c)
             quantized == Quantized(crdbNow, c.QuantizationNanos)
             validForNanos == ValidForNanos(quantized, c.QuantizationNanos, crdbNow)
         IN  [ret |-> [revision |-> Rev(quantized), err |-> ErrNil],
              nowFuncCalls |-> 1, fetched |-> TRUE,
              lastQuantizedRevision |-> quantized,
              revisionValidThrough |-> NewValidThrough(localNow, validForNanos, c)]

\* The whole of OptimizedRevision as one call: okNow is whether NowFunc
\* succeeds, should it be invoked.
OptimizedRevision(okNow) ==
    LET localNow == localClock
        pre == [localNow |-> localNow,
                lastQuantizedRevision |-> lastQuantizedRevision,
                revisionValidThrough |-> revisionValidThrough,
                lastReturned |-> lastReturned,
                remoteClock |-> remoteClock]
        out == OptimizedRevisionOutcome(localNow, lastQuantizedRevision,
                                        revisionValidThrough, remoteClock, okNow, cfg)
    IN
    /\ revisionValidThrough' = out.revisionValidThrough
    /\ lastQuantizedRevision' = out.lastQuantizedRevision
    /\ call' = [op |-> "OptimizedRevision", pre |-> pre,
                nowFuncCalls |-> out.nowFuncCalls, fetched |-> out.fetched,
                ret |-> out.ret]
    /\ lastReturned' = IF out.ret.err = ErrNil THEN out.ret.revision
                       ELSE lastReturned

DoOptimizedRevision ==
    /\ \E okNow \in BOOLEAN : OptimizedRevision(okNow)
    /\ UNCHANGED <<cfg, localClock, remoteClock>>
    /\ UNCHANGED concVars
    /\ UNCHANGED readerVars

\* ------------------------------------------------------------- CheckRevision
ErrRevisionStale == "RevisionStale"
ErrRevisionInFuture == "RevisionInFuture"

\* A stale test that also rejects the revision exactly GCWindowNanos old.
StaleRevisionInclusive(revisionNanos, nowNanos, c) ==
    revisionNanos <= (nowNanos - c.GCWindowNanos)

\* staleRevision := revisionNanos < (nowNanos - rcr.GCWindowNanos)
StaleRevision(revisionNanos, nowNanos, c) ==
    revisionNanos < (nowNanos - c.GCWindowNanos)

\* futureRevision := revisionNanos > nowNanos
FutureRevision(revisionNanos, nowNanos) == revisionNanos > nowNanos

\* The error CheckRevision returns once NowFunc has read nowNanos.
CheckRevisionErr(revisionNanos, nowNanos, c) ==
    IF StaleRevision(revisionNanos, nowNanos, c) THEN ErrRevisionStale
    ELSE IF FutureRevision(revisionNanos, nowNanos) THEN ErrRevisionInFuture
    ELSE ErrNil

\* A CheckRevision that caches the revision it was handed.
CheckRevisionCaching(revision, okNow) ==
    /\ call' = [op |-> "CheckRevision",
                pre |-> [localNow |-> localClock,
                         lastQuantizedRevision |-> lastQuantizedRevision,
                         revisionValidThrough |-> revisionValidThrough,
                         lastReturned |-> lastReturned,
                         remoteClock |-> remoteClock],
                nowFuncCalls |-> 1, fetched |-> okNow, revision |-> revision,
                ret |-> [revision |-> NoRevision,
                         err |-> IF okNow
                                 THEN CheckRevisionErr(revision, remoteClock, cfg)
                                 ELSE ErrNowFunc]]
    /\ lastQuantizedRevision' = revision
    /\ UNCHANGED <<revisionValidThrough, lastReturned>>

\* The whole of CheckRevision as one call: okNow is whether NowFunc succeeds.
CheckRevision(revision, okNow) ==
    LET pre == [localNow |-> localClock,
                lastQuantizedRevision |-> lastQuantizedRevision,
                revisionValidThrough |-> revisionValidThrough,
                lastReturned |-> lastReturned,
                remoteClock |-> remoteClock]
    IN
    /\ call' = [op |-> "CheckRevision", pre |-> pre, nowFuncCalls |-> 1,
                fetched |-> okNow, revision |-> revision,
                ret |-> [revision |-> NoRevision,
                         err |-> IF okNow
                                 THEN CheckRevisionErr(revision, remoteClock, cfg)
                                 ELSE ErrNowFunc]]
    /\ UNCHANGED <<lastQuantizedRevision, revisionValidThrough, lastReturned>>

DoCheckRevision ==
    /\ \E revision \in RevisionInputs, okNow \in BOOLEAN : CheckRevision(revision, okNow)
    /\ UNCHANGED <<cfg, localClock, remoteClock>>
    /\ UNCHANGED concVars
    /\ UNCHANGED readerVars

\* ------------------------------------------------------------ environment
\* The local clock moves on (it never goes back).
TickLocal ==
    /\ localClock < MaxLocal
    /\ localClock' = localClock + 1
    /\ call' = [op |-> "none"]
    /\ UNCHANGED <<cfg, lastQuantizedRevision, revisionValidThrough, remoteClock,
                   lastReturned>>
    /\ UNCHANGED concVars
    /\ UNCHANGED readerVars

\* The backend clock moves on: NowFunc is monotonically non-decreasing.
TickRemote ==
    /\ \E t \in ClockValues : t > remoteClock /\ remoteClock' = t
    /\ call' = [op |-> "none"]
    /\ UNCHANGED <<cfg, lastQuantizedRevision, revisionValidThrough, localClock,
                   lastReturned>>
    /\ UNCHANGED concVars
    /\ UNCHANGED readerVars

\* The caller passes the revision OptimizedRevision has just returned to
\* CheckRevision, the clocks not having moved in between.
DoCheckReturnedRevision ==
    /\ call.op = "OptimizedRevision"
    /\ call.ret.err = ErrNil
    /\ \E okNow \in BOOLEAN : CheckRevision(call.ret.revision.value, okNow)
    /\ UNCHANGED <<cfg, localClock, remoteClock>>
    /\ UNCHANGED concVars
    /\ UNCHANGED readerVars

\* The local clock and the backend clock advance at the same rate.
TickTogether ==
    /\ localClock < MaxSyncLocal
    /\ localClock' = localClock + 1
    /\ remoteClock' = remoteClock + 1
    /\ call' = [op |-> "none"]
    /\ UNCHANGED <<cfg, lastQuantizedRevision, revisionValidThrough, lastReturned>>
    /\ UNCHANGED concVars
    /\ UNCHANGED readerVars

\* ------------------------------------------- concurrent OptimizedRevision
\* The controller holds no lock: callers interleave at every read and write
\* of rcr.revisionValidThrough and rcr.lastQuantizedRevision.
Procs == {1, 2}

IdleLocals == [id |-> 0, localNow |-> 0, sawFrom |-> 0, sawRevision |-> 0,
               quantized |-> 0, validForNanos |-> 0]
NoObservation == [id |-> 0, hit |-> FALSE, rvtFrom |-> 0, rvtRevision |-> 0,
                  lqrFrom |-> 0,
                  ret |-> [revision |-> NoRevision, err |-> ErrNil]]

\* localNow := time.Now()
StartCall(p) ==
    /\ pc[p] = "idle"
    /\ started < MaxCalls
    /\ started' = started + 1
    /\ loc' = [loc EXCEPT ![p] = [IdleLocals EXCEPT !.id = started + 1,
                                                     !.localNow = localClock]]
    /\ pc' = [pc EXCEPT ![p] = "L39"]
    /\ UNCHANGED <<cfg, lastQuantizedRevision, revisionValidThrough, localClock,
                   remoteClock, obs, rvtFrom, rvtRevision, lqrFrom>>
    /\ UNCHANGED seqVars
    /\ UNCHANGED readerVars

\* if localNow.Before(rcr.revisionValidThrough)
ReadValidThrough(p) ==
    /\ pc[p] = "L39"
    /\ IF Before(loc[p].localNow, revisionValidThrough)
       THEN /\ pc' = [pc EXCEPT ![p] = "L41"]
            /\ loc' = [loc EXCEPT ![p].sawFrom = rvtFrom,
                                  ![p].sawRevision = rvtRevision]
       ELSE /\ pc' = [pc EXCEPT ![p] = "L46"]
            /\ UNCHANGED loc
    /\ UNCHANGED <<cfg, lastQuantizedRevision, revisionValidThrough, localClock,
                   remoteClock, obs, started, rvtFrom, rvtRevision, lqrFrom>>
    /\ UNCHANGED seqVars
    /\ UNCHANGED readerVars

\* return rcr.lastQuantizedRevision, nil (the cached revision)
ReturnCached(p) ==
    /\ pc[p] = "L41"
    /\ obs' = [id |-> loc[p].id, hit |-> TRUE,
               rvtFrom |-> loc[p].sawFrom, rvtRevision |-> loc[p].sawRevision,
               lqrFrom |-> lqrFrom,
               ret |-> CacheHitReturn(lastQuantizedRevision)]
    /\ pc' = [pc EXCEPT ![p] = "idle"]
    /\ loc' = [loc EXCEPT ![p] = IdleLocals]
    /\ UNCHANGED <<cfg, lastQuantizedRevision, revisionValidThrough, localClock,
                   remoteClock, started, rvtFrom, rvtRevision, lqrFrom>>
    /\ UNCHANGED seqVars
    /\ UNCHANGED readerVars

\* nowHLC, err := rcr.NowFunc(ctx), and the local arithmetic that follows
FetchNow(p) ==
    /\ pc[p] = "L46"
    /\ \E okNow \in BOOLEAN :
          IF ~okNow
          THEN /\ obs' = [id |-> loc[p].id, hit |-> FALSE, rvtFrom |-> 0,
                          rvtRevision |-> 0, lqrFrom |-> 0,
                          ret |-> NowFuncFailedReturn(lastQuantizedRevision,
                                                      ErrNowFunc)]
               /\ pc' = [pc EXCEPT ![p] = "idle"]
               /\ loc' = [loc EXCEPT ![p] = IdleLocals]
          ELSE LET crdbNow == CrdbNow(remoteClock, cfg)
                   quantized == Quantized(crdbNow, cfg.QuantizationNanos)
               IN
               /\ loc' = [loc EXCEPT ![p].quantized = quantized,
                                     ![p].validForNanos =
                                         ValidForNanos(quantized, cfg.QuantizationNanos,
                                                       crdbNow)]
               /\ pc' = [pc EXCEPT ![p] = "L62"]
               /\ UNCHANGED obs
    /\ UNCHANGED <<cfg, lastQuantizedRevision, revisionValidThrough, localClock,
                   remoteClock, started, rvtFrom, rvtRevision, lqrFrom>>
    /\ UNCHANGED seqVars
    /\ UNCHANGED readerVars

\* rcr.revisionValidThrough = localNow.Add(validForNanos).Add(MaxRevisionStaleness)
WriteValidThrough(p) ==
    /\ pc[p] = "L62"
    /\ revisionValidThrough' =
           NewValidThrough(loc[p].localNow, loc[p].validForNanos, cfg)
    /\ rvtFrom' = loc[p].id
    /\ rvtRevision' = loc[p].quantized
    /\ pc' = [pc EXCEPT ![p] = "L66"]
    /\ UNCHANGED <<cfg, lastQuantizedRevision, localClock, remoteClock, loc, obs,
                   started, lqrFrom>>
    /\ UNCHANGED seqVars
    /\ UNCHANGED readerVars

\* rcr.lastQuantizedRevision = decimal.NewFromInt(quantized)
WriteRevision(p) ==
    /\ pc[p] = "L66"
    /\ lastQuantizedRevision' = loc[p].quantized
    /\ lqrFrom' = loc[p].id
    /\ pc' = [pc EXCEPT ![p] = "L68"]
    /\ UNCHANGED <<cfg, revisionValidThrough, localClock, remoteClock, loc, obs,
                   started, rvtFrom, rvtRevision>>
    /\ UNCHANGED seqVars
    /\ UNCHANGED readerVars

\* return rcr.lastQuantizedRevision, nil (the field is read again)
ReturnFresh(p) ==
    /\ pc[p] = "L68"
    /\ obs' = [id |-> loc[p].id, hit |-> FALSE,
               rvtFrom |-> rvtFrom, rvtRevision |-> rvtRevision,
               lqrFrom |-> lqrFrom,
               ret |-> [revision |-> Rev(lastQuantizedRevision), err |-> ErrNil]]
    /\ pc' = [pc EXCEPT ![p] = "idle"]
    /\ loc' = [loc EXCEPT ![p] = IdleLocals]
    /\ UNCHANGED <<cfg, lastQuantizedRevision, revisionValidThrough, localClock,
                   remoteClock, started, rvtFrom, rvtRevision, lqrFrom>>
    /\ UNCHANGED seqVars
    /\ UNCHANGED readerVars

\* The clocks as the concurrent callers see them.
ConcTickLocal ==
    /\ localClock < MaxConcLocal
    /\ localClock' = localClock + 1
    /\ UNCHANGED <<cfg, lastQuantizedRevision, revisionValidThrough, remoteClock>>
    /\ UNCHANGED seqVars
    /\ UNCHANGED concVars
    /\ UNCHANGED readerVars

ConcTickRemote ==
    /\ remoteClock < MaxConcClock
    /\ remoteClock' = remoteClock + 1
    /\ UNCHANGED <<cfg, lastQuantizedRevision, revisionValidThrough, localClock>>
    /\ UNCHANGED seqVars
    /\ UNCHANGED concVars
    /\ UNCHANGED readerVars

\* ------------------------------------------------------------ mysqlReader
\* Errors are chains, outermost layer first; the empty chain is nil.
NilErr == <<>>
BackendErr(what) == <<[kind |-> "backend", arg |-> what]>>

\* fmt.Errorf(format, err) with a %w verb: one more layer around err.
Wrapf(format, err) == <<[kind |-> "wrap", arg |-> format]>> \o err

errUnableToReadConfig == "unable to read namespace config: %w"
errUnableToListNamespaces == "unable to list namespaces: %w"

\* datastore.NewNamespaceNotFoundErr(namespace)
NewNamespaceNotFoundErr(namespace) ==
    <<[kind |-> "NamespaceNotFound", arg |-> namespace]>>

\* errors.As(err, &datastore.ErrNamespaceNotFound{}): some layer of the chain
\* is a namespace-not-found error.
AsNamespaceNotFound(err) ==
    \E i \in 1 .. Len(err) : err[i].kind = "NamespaceNotFound"

\* The stored payloads, and the namespace payload codec: UnmarshalVT fails on
\* a malformed payload and otherwise yields the definition it encodes.
Payloads == {"payload-1", "payload-2", "malformed"}
NilDefinition == [nil |-> TRUE, decodedFrom |-> ""]
UnmarshalVT(config) ==
    IF config = "malformed"
    THEN [ok |-> FALSE, def |-> NilDefinition]
    ELSE [ok |-> TRUE, def |-> [nil |-> FALSE, decodedFrom |-> config]]

\* revisions.NewForTransactionID(txID): the transaction-id encoding.
NewForTransactionID(txID) == [none |-> FALSE, value |-> txID]

\* What the backend does to one call: whether txSource, ToSql and the query
\* succeed, the row whose Scan fails (0: none), the row in whose place
\* rows.Next() ends the iteration with rows.Err() set (0: none; one past the
\* last row: after all of them), and whether txCleanup succeeds.
Backends ==
    [txOk : BOOLEAN, toSqlOk : BOOLEAN, queryOk : BOOLEAN,
     scanFailAt : 0 .. 2, breakAt : 0 .. 3, cleanupOk : BOOLEAN]

\* A cleanup called at the end of the function only, not deferred.
CleanupOnSuccessOnly(exit) == IF exit = "success" THEN 1 ELSE 0

\* defer common.LogOnError(ctx, txCleanup): how often txCleanup runs on the
\* exit path taken, once the transaction has been acquired.
DeferredCleanupCalls(exit) == 1

\* The results are unnamed, so the deferred cleanup cannot change them: its
\* error is logged and dropped.
Returned(ret, b) == ret

\* A single-row query without its namespace predicate.
RowsOfAnyName(sel, name) == sel

\* Rows of sel with namespace = name, in row order.
RowsNamed(sel, name) == SelectSeq(sel, LAMBDA r : r.namespace = name)

\* sql.ErrNoRows, which Scan returns when the query selected no row.
ErrNoRows == BackendErr("sql: no rows in result set")

\* A Scan error passed on as it is.
ScanErrKept(err, namespace) == err

\* if errors.Is(err, sql.ErrNoRows) { err = datastore.NewNamespaceNotFoundErr(namespace) }
ScanErr(err, namespace) ==
    IF err = ErrNoRows THEN NewNamespaceNotFoundErr(namespace) ELSE err

\* loadNamespace: the single-row read.
loadNamespace(namespace, sel, b) ==
    LET matching == RowsNamed(sel, namespace)
        scanned == IF ~b.queryOk \/ b.scanFailAt = 1 THEN BackendErr("Scan")
                   ELSE IF Len(matching) = 0 THEN ErrNoRows
                   ELSE NilErr
    IN
    IF ~b.toSqlOk
    THEN [def |-> NilDefinition, rev |-> NoRevision, err |-> BackendErr("ToSql"),
          exit |-> "buildError", queryCalls |-> 0]
    ELSE IF scanned # NilErr
    THEN [def |-> NilDefinition, rev |-> NoRevision,
          err |-> ScanErr(scanned, namespace),
          exit |-> IF scanned = ErrNoRows THEN "notFound" ELSE "queryError",
          queryCalls |-> 1]
    ELSE LET loaded == UnmarshalVT(matching[1].config) IN
         IF ~loaded.ok
         THEN [def |-> NilDefinition, rev |-> NoRevision,
               err |-> BackendErr("UnmarshalVT"), exit |-> "decodeError",
               queryCalls |-> 1]
         ELSE [def |-> loaded.def, rev |-> NewForTransactionID(matching[1].txID),
               err |-> NilErr, exit |-> "success", queryCalls |-> 1]

\* ReadNamespaceByName: the values returned, the exit path, and the calls made
\* to txSource and txCleanup and the queries executed.
ReadNamespaceByName(nsName, sel, b) ==
    IF ~b.txOk
    THEN [ret |-> [def |-> NilDefinition, rev |-> NoRevision,
                   err |-> Wrapf(errUnableToReadConfig, BackendErr("txSource"))],
          exit |-> "txError", txSourceCalls |-> 1, cleanupCalls |-> 0,
          queryCalls |-> 0]
    ELSE LET l == loadNamespace(nsName, sel, b)
             ret == IF AsNamespaceNotFound(l.err)
                    THEN [def |-> NilDefinition, rev |-> NoRevision, err |-> l.err]
                    ELSE IF l.err = NilErr
                    THEN [def |-> l.def, rev |-> l.rev, err |-> NilErr]
                    ELSE [def |-> NilDefinition, rev |-> NoRevision,
                          err |-> Wrapf(errUnableToReadConfig, l.err)]
         IN  [ret |-> Returned(ret, b), exit |-> l.exit, txSourceCalls |-> 1,
              cleanupCalls |-> DeferredCleanupCalls(l.exit),
              queryCalls |-> l.queryCalls]

\* for rows.Next(): the iteration ends in place of row i, because the rows
\* are used up or because the backend broke it off.
IterationEnds(sel, i, b) == b.breakAt = i \/ i > Len(sel)

\* A loop whose end is taken for the end of the rows, rows.Err() unread.
RowsErrUnchecked(sel, i, b) == NilErr

\* rows.Err() once the iteration has ended in place of row i.
RowsErr(sel, i, b) == IF b.breakAt = i THEN BackendErr("rows.Err") ELSE NilErr

\* loadAllNamespaces from row i on, nsDefs being what is decoded so far.
RECURSIVE LoadRows(_, _, _, _)
LoadRows(sel, i, nsDefs, b) ==
    IF IterationEnds(sel, i, b)
    THEN IF RowsErr(sel, i, b) # NilErr
         THEN [nsDefs |-> <<>>, err |-> RowsErr(sel, i, b), exit |-> "rowsError"]
         ELSE [nsDefs |-> nsDefs, err |-> NilErr, exit |-> "success"]
    ELSE IF b.scanFailAt = i
    THEN [nsDefs |-> <<>>, err |-> BackendErr("Scan"), exit |-> "scanError"]
    ELSE LET loaded == UnmarshalVT(sel[i].config) IN
         IF ~loaded.ok
         THEN [nsDefs |-> <<>>,
               err |-> Wrapf(errUnableToReadConfig, BackendErr("UnmarshalVT")),
               exit |-> "decodeError"]
         ELSE LoadRows(sel, i + 1,
                       Append(nsDefs,
                              [Definition |-> loaded.def,
                               LastWrittenRevision |-> NewForTransactionID(sel[i].txID)]),
                       b)

\* loadAllNamespaces: what it returns, and the queries it executes.
loadAllNamespaces(sel, b) ==
    IF ~b.toSqlOk
    THEN [nsDefs |-> <<>>, err |-> BackendErr("ToSql"), exit |-> "buildError",
          queryCalls |-> 0]
    ELSE IF ~b.queryOk
    THEN [nsDefs |-> <<>>, err |-> BackendErr("Query"), exit |-> "queryError",
          queryCalls |-> 1]
    ELSE LET l == LoadRows(sel, 1, <<>>, b) IN
         [nsDefs |-> l.nsDefs, err |-> l.err, exit |-> l.exit, queryCalls |-> 1]

\* The part ListAllNamespaces and LookupNamespacesWithNames share, from
\* txSource on, sel being the rows their query selects.
ListWith(sel, b) ==
    IF ~b.txOk
    THEN [ret |-> [nsDefs |-> <<>>, err |-> BackendErr("txSource")],
          exit |-> "txError", txSourceCalls |-> 1, cleanupCalls |-> 0,
          queryCalls |-> 0]
    ELSE LET l == loadAllNamespaces(sel, b)
             ret == IF l.err # NilErr
                    THEN [nsDefs |-> <<>>,
                          err |-> Wrapf(errUnableToListNamespaces, l.err)]
                    ELSE [nsDefs |-> l.nsDefs, err |-> NilErr]
         IN  [ret |-> Returned(ret, b), exit |-> l.exit, txSourceCalls |-> 1,
              cleanupCalls |-> DeferredCleanupCalls(l.exit),
              queryCalls |-> l.queryCalls]

ListAllNamespaces(sel, b) == ListWith(sel, b)

\* A clause that joins the equalities with AND: the rows named by all of
\* nsNames.
RowsNamedAllOf(sel, nsNames) ==
    SelectSeq(sel, LAMBDA r : \A i \in 1 .. Len(nsNames) : r.namespace = nsNames[i])

\* sq.Or{sq.Eq{colNamespace: nsName}, ...}: the rows named by one of nsNames.
RowsNamedAnyOf(sel, nsNames) ==
    SelectSeq(sel, LAMBDA r : \E i \in 1 .. Len(nsNames) : r.namespace = nsNames[i])

\* A lookup that takes no list of names for empty.
NeverNoNames(nsNames) == FALSE

\* if len(nsNames) == 0
NoNames(nsNames) == Len(nsNames) = 0

LookupNamespacesWithNames(nsNames, sel, b) ==
    IF NoNames(nsNames)
    THEN [ret |-> [nsDefs |-> <<>>, err |-> NilErr], exit |-> "noNames",
          txSourceCalls |-> 0, cleanupCalls |-> 0, queryCalls |-> 0]
    ELSE ListWith(RowsNamedAnyOf(sel, nsNames), b)

\* ------------------------------------------------------- reader's callers
Names == {"a", "b"}
QueryNames == Names \cup {"missing"}
NameLists == {<<>>} \cup {<<n>> : n \in QueryNames}
                    \cup {<<n, m>> : n \in QueryNames, m \in QueryNames}

DoReadNamespaceByName ==
    /\ rcall.op = "none"
    /\ \E nsName \in QueryNames, b \in Backends :
          rcall' = [op |-> "ReadNamespaceByName", nsName |-> nsName, backend |-> b,
                    out |-> ReadNamespaceByName(nsName, namespaces, b)]
    /\ UNCHANGED <<namespaces, nextTx>>
    /\ UNCHANGED <<controllerVars, seqVars, concVars>>

DoListAllNamespaces ==
    /\ rcall.op = "none"
    /\ \E b \in Backends :
          rcall' = [op |-> "ListAllNamespaces", backend |-> b,
                    out |-> ListAllNamespaces(namespaces, b)]
    /\ UNCHANGED <<namespaces, nextTx>>
    /\ UNCHANGED <<controllerVars, seqVars, concVars>>

DoLookupNamespacesWithNames ==
    /\ rcall.op = "none"
    /\ \E nsNames \in NameLists, b \in Backends :
          rcall' = [op |-> "LookupNamespacesWithNames", nsNames |-> nsNames,
                    backend |-> b,
                    out |-> LookupNamespacesWithNames(nsNames, namespaces, b)]
    /\ UNCHANGED <<namespaces, nextTx>>
    /\ UNCHANGED <<controllerVars, seqVars, concVars>>

\* The caller takes the result; the reader is free for the next call.
TakeResult ==
    /\ rcall.op # "none"
    /\ rcall' = [op |-> "none"]
    /\ UNCHANGED <<namespaces, nextTx>>
    /\ UNCHANGED <<controllerVars, seqVars, concVars>>

\* A writer's transaction stores a definition: the row the reader selects for
\* that name is the newly written one, at the end of the table.
WriteNamespace ==
    /\ nextTx <= MaxTx
    /\ \E name \in Names, config \in Payloads :
          namespaces' =
              Append(SelectSeq(namespaces, LAMBDA r : r.namespace # name),
                     [namespace |-> name, config |-> config, txID |-> nextTx])
    /\ nextTx' = nextTx + 1
    /\ rcall' = [op |-> "none"]
    /\ UNCHANGED <<controllerVars, seqVars, concVars>>

\* A writer's transaction deletes a definition.
DeleteNamespace ==
    /\ nextTx <= MaxTx
    /\ \E name \in Names :
          /\ \E i \in 1 .. Len(namespaces) : namespaces[i].namespace = name
          /\ namespaces' = SelectSeq(namespaces, LAMBDA r : r.namespace # name)
    /\ nextTx' = nextTx + 1
    /\ rcall' = [op |-> "none"]
    /\ UNCHANGED <<controllerVars, seqVars, concVars>>

\* ------------------------------------------------------------ specification
\* The controller as constructed: the zero decimal.Decimal and the zero
\* time.Time, which lies before every reading of time.Now().
ExampleConfig ==
    [QuantizationNanos |-> 1000, GCWindowNanos |-> 5000,
     FollowerReadDelayNanos |-> 100, MaxRevisionStaleness |-> 0]

Configs ==
    [QuantizationNanos : QuantizationChoices,
     GCWindowNanos : GCWindowChoices,
     FollowerReadDelayNanos : FollowerDelayChoices,
     MaxRevisionStaleness : StalenessChoices] \cup {ExampleConfig}

Init ==
    /\ cfg \in Configs
    /\ lastQuantizedRevision = 0
    /\ revisionValidThrough = 0
    /\ localClock = 1
    /\ remoteClock \in {0, 1}
    /\ lastReturned = NoRevision
    /\ call = [op |-> "none"]
    /\ pc = [p \in Procs |-> "idle"]
    /\ loc = [p \in Procs |-> IdleLocals]
    /\ obs = NoObservation
    /\ started = 0
    /\ rvtFrom = 0
    /\ rvtRevision = 0
    /\ lqrFrom = 0
    /\ namespaces = <<>>
    /\ nextTx = 1
    /\ rcall = [op |-> "none"]

\* Sequential use of one controller: each call runs to its return.
Next ==
    \/ DoOptimizedRevision
    \/ DoCheckRevision
    \/ TickLocal
    \/ TickRemote

Spec == Init /\ [][Next]_vars

\* Concurrent use of one controller: two callers, interleaved line by line.
ConcConfigs ==
    [QuantizationNanos : {0, 2},
     GCWindowNanos : {0},
     FollowerReadDelayNanos : {0},
     MaxRevisionStaleness : StalenessChoices]

InitConc ==
    /\ Init
    /\ cfg \in ConcConfigs

NextConc ==
    \/ \E p \in Procs :
          \/ StartCall(p)
          \/ ReadValidThrough(p)
          \/ ReturnCached(p)
          \/ FetchNow(p)
          \/ WriteValidThrough(p)
          \/ WriteRevision(p)
          \/ ReturnFresh(p)
    \/ ConcTickLocal
    \/ ConcTickRemote

SpecConc == InitConc /\ [][NextConc]_vars

\* The namespace read path over a table that writers change between reads.
InitReader ==
    /\ Init
    /\ cfg = ExampleConfig
    /\ remoteClock = 0

NextReader ==
    \/ DoReadNamespaceByName
    \/ DoListAllNamespaces
    \/ DoLookupNamespacesWithNames
    \/ TakeResult
    \/ WriteNamespace
    \/ DeleteNamespace

SpecReader == InitReader /\ [][NextReader]_vars

\* Sequential use of one controller whose local clock and backend clock
\* advance at the same rate, from any offset between the two.
SyncConfigs ==
    [QuantizationNanos : QuantizationChoices,
     GCWindowNanos : {0, 2, 6},
     FollowerReadDelayNanos : FollowerDelayChoices,
     MaxRevisionStaleness : StalenessChoices]

InitSync ==
    /\ cfg \in SyncConfigs
    /\ lastQuantizedRevision = 0
    /\ revisionValidThrough = 0
    /\ localClock = 1
    /\ remoteClock \in 0 .. 3
    /\ lastReturned = NoRevision
    /\ call = [op |-> "none"]
    /\ pc = [p \in Procs |-> "idle"]
    /\ loc = [p \in Procs |-> IdleLocals]
    /\ obs = NoObservation
    /\ started = 0
    /\ rvtFrom = 0
    /\ rvtRevision = 0
    /\ lqrFrom = 0
    /\ namespaces = <<>>
    /\ nextTx = 1
    /\ rcall = [op |-> "none"]

NextSync ==
    \/ DoOptimizedRevision
    \/ DoCheckReturnedRevision
    \/ TickTogether

SpecSync == InitSync /\ [][NextSync]_vars

\* One caller of both components.  The reader and the controller share no
\* state, so the reader is called on the store as it stands before the
\* controller's first call, and the controller is called between reads.
StoredRow(namespace, config, txID) ==
    [namespace |-> namespace, config |-> config, txID |-> txID]

\* Tables the store may hold; txID is a uint64, 0 included.
StoredTables ==
    {<<>>,
     <<StoredRow("a", "payload-1", 0)>>,
     <<StoredRow("a", "malformed", 1)>>,
     <<StoredRow("a", "payload-1", 1), StoredRow("b", "payload-2", 2)>>}

RevisionsConfigs ==
    [QuantizationNanos : QuantizationChoices,
     GCWindowNanos : {0},
     FollowerReadDelayNanos : FollowerDelayChoices,
     MaxRevisionStaleness : StalenessChoices]

InitRevisions ==
    /\ cfg \in RevisionsConfigs
    /\ lastQuantizedRevision = 0
    /\ revisionValidThrough = 0
    /\ localClock = 1
    /\ remoteClock \in {0, 1}
    /\ lastReturned = NoRevision
    /\ call = [op |-> "none"]
    /\ pc = [p \in Procs |-> "idle"]
    /\ loc = [p \in Procs |-> IdleLocals]
    /\ obs = NoObservation
    /\ started = 0
    /\ rvtFrom = 0
    /\ rvtRevision = 0
    /\ lqrFrom = 0
    /\ namespaces \in StoredTables
    /\ nextTx = 1
    /\ rcall = [op |-> "none"]

ControllerUnused ==
    /\ lastReturned = NoRevision
    /\ call.op = "none"
    /\ localClock = 1

NextRevisions ==
    \/ ControllerUnused /\ DoReadNamespaceByName
    \/ TakeResult
    \/ rcall.op = "none" /\ DoOptimizedRevision
    \/ rcall.op = "none" /\ TickLocal
    \/ rcall.op = "none" /\ TickRemote

SpecRevisions == InitRevisions /\ [][NextRevisions]_vars

\* ----------------------------------------------------------------- claims
JustOptimized == call.op = "OptimizedRevision"
JustChecked == call.op = "CheckRevision"
CacheMissFetched == JustOptimized /\ call.fetched

\* The claims' effectiveNow of the call that has just returned.
EffectiveNow == call.pre.remoteClock - cfg.FollowerReadDelayNanos

\* r is a multiple of q (q > 0).
IsMultipleOf(r, q) == (IF r >= 0 THEN r ELSE -r) % q = 0

\* C1: on a cache miss with a successful clock fetch T, OptimizedRevision
\* returns the nearest lower multiple of Q of effectiveNow = T - D when Q > 0
\* (a multiple of Q that is <= effectiveNow and > effectiveNow - Q), and
\* exactly effectiveNow when Q = 0.
C1_ReturnsNearestLowerMultiple ==
    CacheMissFetched =>
        LET q == cfg.QuantizationNanos
            r == call.ret.revision.value
        IN  /\ call.ret.err = ErrNil
            /\ ~call.ret.revision.none
            /\ IF q > 0
               THEN /\ IsMultipleOf(r, q)
                    /\ r <= EffectiveNow
                    /\ r > EffectiveNow - q
               ELSE r = EffectiveNow

\* C2: a call at a local time strictly before revisionValidThrough returns
\* the cached revision, does not invoke NowFunc and leaves both fields as
\* they were; a call at or after revisionValidThrough invokes NowFunc once.
C2_CacheHitFrame ==
    JustOptimized =>
        IF call.pre.localNow < call.pre.revisionValidThrough
        THEN /\ call.ret = [revision |-> Rev(call.pre.lastQuantizedRevision),
                            err |-> ErrNil]
             /\ call.nowFuncCalls = 0
             /\ lastQuantizedRevision = call.pre.lastQuantizedRevision
             /\ revisionValidThrough = call.pre.revisionValidThrough
        ELSE call.nowFuncCalls = 1

\* A second call inside the validity window of the spec's example returns
\* the cached 9000 without reading the backend clock.
C2_Witness ==
    /\ JustOptimized
    /\ cfg = ExampleConfig
    /\ call.nowFuncCalls = 0
    /\ call.pre.localNow > 1
    /\ call.ret.revision = Rev(9000)

\* C3: after a cache miss whose clock fetch succeeds, lastQuantizedRevision
\* is the returned quantized value and revisionValidThrough is
\* localNow + ((quantized + Q) - effectiveNow) + MaxRevisionStaleness.
C3_StateAfterMiss ==
    CacheMissFetched =>
        LET quantized == call.ret.revision.value IN
        /\ lastQuantizedRevision = quantized
        /\ revisionValidThrough =
               call.pre.localNow
               + ((quantized + cfg.QuantizationNanos) - EffectiveNow)
               + cfg.MaxRevisionStaleness

\* The spec's example: T = 10050, D = 100, Q = 1000 leaves 50 ns of validity.
C3_Witness ==
    /\ CacheMissFetched
    /\ cfg = ExampleConfig
    /\ call.pre.remoteClock = 10050
    /\ lastQuantizedRevision = 9000
    /\ revisionValidThrough = call.pre.localNow + 50

\* C4: with the backend clock read as now, CheckRevision(r) fails with
\* RevisionStale iff r < now - g, with RevisionInFuture iff r > now, and
\* succeeds otherwise.
C4_CheckRevisionBoundaries ==
    (JustChecked /\ call.fetched) =>
        LET r == call.revision
            now == call.pre.remoteClock
            g == cfg.GCWindowNanos
        IN  /\ (call.ret.err = ErrRevisionStale) <=> (r < now - g)
            /\ (call.ret.err = ErrRevisionInFuture) <=> (r > now)
            /\ (call.ret.err = ErrNil) <=> (r >= now - g /\ r <= now)

\* gcWindow = 5000, now = 10000: the revision exactly gcWindow old is valid.
C4_Witness ==
    /\ JustChecked
    /\ call.fetched
    /\ cfg.GCWindowNanos = 5000
    /\ call.pre.remoteClock = 10000
    /\ call.revision = 5000
    /\ call.ret.err = ErrNil

\* C5: of two sequential successful OptimizedRevision calls, with a backend
\* clock that never goes back, the second returns a revision >= the first.
C5_SequentialMonotonic ==
    (JustOptimized /\ call.ret.err = ErrNil /\ ~call.pre.lastReturned.none) =>
        /\ ~call.ret.revision.none
        /\ call.ret.revision.value >= call.pre.lastReturned.value

\* A miss after an earlier success, the backend clock having advanced past a
\* quantization boundary.
C5_Witness ==
    /\ CacheMissFetched
    /\ ~call.pre.lastReturned.none
    /\ cfg.QuantizationNanos > 0
    /\ call.ret.revision.value > call.pre.lastReturned.value

\* C8: when NowFunc fails on a cache miss, the call returns NoRevision with
\* the underlying error and both fields stay as they were, so that a call at
\* this local time or later reads the clock again.
C8_FailedFetchNotCached ==
    (JustOptimized /\ call.nowFuncCalls = 1 /\ ~call.fetched) =>
        /\ call.ret = [revision |-> NoRevision, err |-> ErrNowFunc]
        /\ lastQuantizedRevision = call.pre.lastQuantizedRevision
        /\ revisionValidThrough = call.pre.revisionValidThrough
        /\ localClock >= revisionValidThrough

\* A failed fetch once a revision is cached and its deadline has passed.
C8_Witness ==
    /\ JustOptimized
    /\ call.nowFuncCalls = 1
    /\ ~call.fetched
    /\ call.ret.err = ErrNowFunc
    /\ ~call.pre.lastReturned.none
    /\ call.pre.revisionValidThrough > 0

\* C6: under concurrent OptimizedRevision calls the cached revision and its
\* deadline change as one unit: no cache hit pairs a revisionValidThrough
\* written from one clock fetch with a lastQuantizedRevision written from a
\* different, older clock fetch, so no hit returns a revision staler than the
\* one its deadline was computed for.
C6_PairUpdatedAtomically ==
    obs.hit => ~(/\ 0 < obs.lqrFrom
                 /\ obs.lqrFrom < obs.rvtFrom
                 /\ obs.ret.revision.value < obs.rvtRevision)

\* C7: revisionValidThrough never decreases from one state to the next, in
\* every interleaving of calls.
C7_ValidThroughNeverRolledBack ==
    [][revisionValidThrough' >= revisionValidThrough]_vars

JustRead == rcall.op = "ReadNamespaceByName"
JustListed == rcall.op = "ListAllNamespaces"
JustLookedUp == rcall.op = "LookupNamespacesWithNames" /\ Len(rcall.nsNames) > 0

\* The single-row query of the call that has just returned ran and selected
\* no row.
ZeroRowsSelected ==
    /\ JustRead
    /\ rcall.backend.txOk /\ rcall.backend.toSqlOk
    /\ rcall.backend.queryOk /\ rcall.backend.scanFailAt # 1
    /\ \A i \in 1 .. Len(namespaces) : namespaces[i].namespace # rcall.nsName

\* C9: ReadNamespaceByName for a name with zero matching rows returns a nil
\* definition, NoRevision and a NamespaceNotFound error carrying the name,
\* with no wrapping layer around it.
C9_NotFoundUnwrapped ==
    ZeroRowsSelected =>
        rcall.out.ret = [def |-> NilDefinition, rev |-> NoRevision,
                         err |-> <<[kind |-> "NamespaceNotFound",
                                    arg |-> rcall.nsName]>>]

\* "missing" is read from a table that holds other definitions.
C9_Witness ==
    /\ ZeroRowsSelected
    /\ rcall.nsName = "missing"
    /\ Len(namespaces) = 2
    /\ rcall.out.exit = "notFound"

\* The call that has just returned, had the backend behaved as b.
OutWith(b) ==
    IF JustRead THEN ReadNamespaceByName(rcall.nsName, namespaces, b)
    ELSE IF JustListed THEN ListAllNamespaces(namespaces, b)
    ELSE LookupNamespacesWithNames(rcall.nsNames, namespaces, b)

\* C10: each call of ReadNamespaceByName, ListAllNamespaces and
\* LookupNamespacesWithNames (with names) asks txSource for exactly one
\* transaction; once it has one, txCleanup runs exactly once on every exit
\* path; and the values returned are those returned when txCleanup succeeds.
C10_OneTransactionReleasedOnce ==
    (JustRead \/ JustListed \/ JustLookedUp) =>
        /\ rcall.out.txSourceCalls = 1
        /\ rcall.out.cleanupCalls = (IF rcall.backend.txOk THEN 1 ELSE 0)
        /\ rcall.out.ret = OutWith([rcall.backend EXCEPT !.cleanupOk = TRUE]).ret

\* The second row's Scan fails in a lookup, and then txCleanup fails too.
C10_Witness ==
    /\ JustLookedUp
    /\ rcall.out.exit = "scanError"
    /\ rcall.backend.scanFailAt = 2
    /\ ~rcall.backend.cleanupOk
    /\ rcall.out.cleanupCalls = 1
    /\ rcall.out.ret.err # NilErr

JustLookedUpNoNames ==
    rcall.op = "LookupNamespacesWithNames" /\ Len(rcall.nsNames) = 0

\* C11: LookupNamespacesWithNames with an empty list of names returns an
\* empty result and no error, and touches the backend not at all: it asks
\* txSource for no transaction and executes no query, whatever the table
\* holds and however the backend would have behaved.
C11_NoNamesNoBackendCall ==
    JustLookedUpNoNames =>
        /\ rcall.out.ret = [nsDefs |-> <<>>, err |-> NilErr]
        /\ rcall.out.txSourceCalls = 0
        /\ rcall.out.queryCalls = 0
        /\ rcall.out.cleanupCalls = 0

\* No names are looked up in a table that holds definitions, over a backend
\* whose txSource would have failed.
C11_Witness ==
    /\ JustLookedUpNoNames
    /\ Len(namespaces) = 2
    /\ ~rcall.backend.txOk
    /\ rcall.out.exit = "noNames"
    /\ rcall.out.ret.err = NilErr

\* The rows the query of the list or lookup that has just returned selects.
RowsProduced ==
    IF JustListed THEN namespaces ELSE RowsNamedAnyOf(namespaces, rcall.nsNames)

\* The query of the call that has just returned was executed.
QueryRan ==
    rcall.backend.txOk /\ rcall.backend.toSqlOk /\ rcall.backend.queryOk

\* Over the rows sel, some row's Scan fails, some payload does not decode, or
\* the iteration is broken off with an error.
RowLoadFails(sel, b) ==
    \E i \in 1 .. (Len(sel) + 1) :
        \/ b.breakAt = i
        \/ /\ i <= Len(sel)
           /\ (b.scanFailAt = i \/ ~UnmarshalVT(sel[i].config).ok)

\* C12: ListAllNamespaces and LookupNamespacesWithNames are all-or-nothing.
\* A call that returns an error returns no namespaces; a failing Scan, a
\* payload that does not decode or an iteration error makes the call return
\* an error; and a call that succeeds returns one RevisionedNamespace for
\* every row its query produced, in row order.
C12_AllOrNothing ==
    (JustListed \/ JustLookedUp) =>
        LET sel == RowsProduced
            ret == rcall.out.ret
        IN  /\ (ret.err # NilErr) => (ret.nsDefs = <<>>)
            /\ (QueryRan /\ RowLoadFails(sel, rcall.backend)) => (ret.err # NilErr)
            /\ (ret.err = NilErr) =>
                   ret.nsDefs =
                       [i \in 1 .. Len(sel) |->
                           [Definition |-> [nil |-> FALSE,
                                            decodedFrom |-> sel[i].config],
                            LastWrittenRevision |-> [none |-> FALSE,
                                                     value |-> sel[i].txID]]]

\* A list over two rows: the first is decoded, then the iteration is broken
\* off with an error and nothing is returned.
C12_Witness ==
    /\ JustListed
    /\ Len(namespaces) = 2
    /\ QueryRan
    /\ rcall.backend.scanFailAt # 1
    /\ UnmarshalVT(namespaces[1].config).ok
    /\ rcall.backend.breakAt = 2
    /\ rcall.out.exit = "rowsError"
    /\ rcall.out.ret.nsDefs = <<>>
    /\ rcall.out.ret.err # NilErr

\* C13: when ReadNamespaceByName(N) succeeds, N has a row in the store, the
\* revision reported is the one built from the transaction id stored in that
\* row, and every ListAllNamespaces that succeeds against the same store
\* state reports that same revision for N.
C13_ReadAndListAgreeOnRevision ==
    (JustRead /\ rcall.out.ret.err = NilErr) =>
        \E i \in 1 .. Len(namespaces) :
            /\ namespaces[i].namespace = rcall.nsName
            /\ rcall.out.ret.rev = [none |-> FALSE, value |-> namespaces[i].txID]
            /\ \A b \in Backends :
                  LET listed == ListAllNamespaces(namespaces, b).ret IN
                  (listed.err = NilErr) =>
                      listed.nsDefs[i].LastWrittenRevision = rcall.out.ret.rev

\* The definition read is the second of two rows, written by a later
\* transaction than the first, and the table can be listed.
C13_Witness ==
    /\ JustRead
    /\ rcall.out.ret.err = NilErr
    /\ Len(namespaces) = 2
    /\ namespaces[2].namespace = rcall.nsName
    /\ namespaces[1].txID # namespaces[2].txID
    /\ rcall.out.ret.rev.value = namespaces[2].txID
    /\ \E b \in Backends : ListAllNamespaces(namespaces, b).ret.err = NilErr

\* The operation-identifying context of the call that has just returned.
OperationContext ==
    IF JustRead THEN errUnableToReadConfig ELSE errUnableToListNamespaces

\* The error of the reader call that has just returned.
ReturnedErr == rcall.out.ret.err

\* C14: every error returned by ReadNamespaceByName, ListAllNamespaces or
\* LookupNamespacesWithNames is either a NamespaceNotFound returned as it is
\* (by ReadNamespaceByName only), or carries the operation-identifying
\* context of that operation as its outermost layer.
C14_BackendErrorsWrapped ==
    (rcall.op # "none" /\ ReturnedErr # NilErr) =>
        \/ /\ JustRead
           /\ ReturnedErr = NewNamespaceNotFoundErr(rcall.nsName)
        \/ ReturnedErr[1] = [kind |-> "wrap", arg |-> OperationContext]

\* C15: every revision OptimizedRevision returns with a nil error, on a hit
\* or on a miss, is <= (backend clock at the time of return) - D, and
\* CheckRevision of it at that backend clock is not RevisionInFuture.
C15_ReturnedRevisionNotInFuture ==
    (JustOptimized /\ call.ret.err = ErrNil) =>
        /\ call.ret.revision.value <= remoteClock - cfg.FollowerReadDelayNanos
        /\ CheckRevisionErr(call.ret.revision.value, remoteClock, cfg)
               # ErrRevisionInFuture

\* Q + D + MaxRevisionStaleness: the staleness the cache is allowed.
StalenessBound ==
    cfg.QuantizationNanos + cfg.FollowerReadDelayNanos + cfg.MaxRevisionStaleness

\* C16: with the local clock and the backend clock advancing at the same
\* rate, every revision a sequential OptimizedRevision call returns with a
\* nil error, on a hit or on a miss, is at most
\* QuantizationNanos + FollowerReadDelayNanos + MaxRevisionStaleness behind
\* the backend clock at the moment of the call; and when GCWindowNanos is at
\* least that sum, CheckRevision of the revision just returned does not fail
\* with RevisionStale.
C16_BoundedStaleness ==
    /\ (JustOptimized /\ call.ret.err = ErrNil) =>
           remoteClock - call.ret.revision.value <= StalenessBound
    /\ (JustChecked /\ call.fetched /\ cfg.GCWindowNanos >= StalenessBound) =>
           call.ret.err # ErrRevisionStale

\* The revision returned by a hit at the very end of its validity, one
\* nanosecond short of the bound, passes CheckRevision with a GC window of
\* exactly the bound.
C16_Witness ==
    /\ JustChecked
    /\ call.fetched
    /\ cfg.QuantizationNanos > 0
    /\ cfg.MaxRevisionStaleness > 0
    /\ cfg.FollowerReadDelayNanos > 0
    /\ cfg.GCWindowNanos = StalenessBound
    /\ call.revision = call.pre.lastReturned.value
    /\ remoteClock - call.revision = StalenessBound - 1
    /\ call.ret.err = ErrNil

\* C17: under concurrent OptimizedRevision calls, with a backend clock that
\* never goes back, the cached lastQuantizedRevision never decreases from
\* one state to the next: no call that fetched an earlier clock value writes
\* over the revision cached by a call that fetched a later one.
C17_CachedRevisionNeverDecreases ==
    [][lastQuantizedRevision' >= lastQuantizedRevision]_vars

C19_CheckRevisionFrame ==
    JustChecked =>
        /\ lastQuantizedRevision = call.pre.lastQuantizedRevision
        /\ revisionValidThrough = call.pre.revisionValidThrough
        /\ \A okNow \in BOOLEAN :
              OptimizedRevisionOutcome(localClock, lastQuantizedRevision,
                                       revisionValidThrough, remoteClock, okNow, cfg)
              = OptimizedRevisionOutcome(call.pre.localNow,
                                         call.pre.lastQuantizedRevision,
                                         call.pre.revisionValidThrough,
                                         call.pre.remoteClock, okNow, cfg)

\* A revision is cached and still valid; CheckRevision rejects another
\* revision as stale.
C19_Witness ==
    /\ JustChecked
    /\ call.ret.err = ErrRevisionStale
    /\ ~call.pre.lastReturned.none
    /\ call.revision # lastQuantizedRevision
    /\ localClock < revisionValidThrough

\* name is one of nsNames.
OneOf(name, nsNames) == \E k \in 1 .. Len(nsNames) : nsNames[k] = name

\* The entries of a listing of the rows sel that belong to rows named by one
\* of nsNames, in the order of the listing.
RestrictedTo(nsDefs, sel, nsNames) ==
    LET kept == SelectSeq([i \in 1 .. Len(sel) |-> i],
                          LAMBDA i : OneOf(sel[i].namespace, nsNames))
    IN  [j \in 1 .. Len(kept) |-> nsDefs[kept[j]]]

\* The names of nsNames that have a stored definition.
StoredNamesOf(nsNames) ==
    SelectSeq(nsNames,
              LAMBDA n : \E i \in 1 .. Len(namespaces) : namespaces[i].namespace = n)

\* C20: a successful LookupNamespacesWithNames with a non-empty list of
\* names returns exactly the entries a successful ListAllNamespaces of the
\* same store returns for the rows named by one of the names, each with the
\* same definition and revision; and the names that have no stored
\* definition contribute nothing and cause no error: the call returns what
\* the lookup of the stored names alone returns, and an empty result with no
\* error when none of the names is stored and the query runs through.
C20_LookupIsRestrictedList ==
    JustLookedUp =>
        LET ret == rcall.out.ret
            stored == StoredNamesOf(rcall.nsNames)
        IN  /\ (ret.err = NilErr) =>
                   \A b \in Backends :
                       LET listed == ListAllNamespaces(namespaces, b).ret IN
                       (listed.err = NilErr) =>
                           ret.nsDefs = RestrictedTo(listed.nsDefs, namespaces,
                                                     rcall.nsNames)
            /\ (stored # <<>>) =>
                   ret = LookupNamespacesWithNames(stored, namespaces,
                                                   rcall.backend).ret
            /\ (stored = <<>> /\ QueryRan /\ rcall.backend.breakAt # 1) =>
                   ret = [nsDefs |-> <<>>, err |-> NilErr]

\* Of two stored definitions the second is looked up, together with a name
\* that has none.
C20_Witness ==
    /\ JustLookedUp
    /\ Len(namespaces) = 2
    /\ rcall.nsNames = <<"missing", namespaces[2].namespace>>
    /\ rcall.out.ret.err = NilErr
    /\ Len(rcall.out.ret.nsDefs) = 1
    /\ rcall.out.ret.nsDefs[1].LastWrittenRevision.value = namespaces[2].txID
    /\ \E b \in Backends :
          /\ ListAllNamespaces(namespaces, b).ret.err = NilErr
          /\ Len(ListAllNamespaces(namespaces, b).ret.nsDefs) = 2

====
